---- MODULE Spec2Model ----
(***************************************************************************)
(* A model of the EventEmitter class of src/src/index.ts (the exported    *)
(* class, lines 130-282) and of the Listener wrapper of                    *)
(* src/src/Listener.ts.                                                    *)
(*                                                                         *)
(* Every public method is one action.  The methods call each other and    *)
(* re-enter emit synchronously (the newListener and removeListener         *)
(* notifications), so each method is an operator from a registry record    *)
(* to the registry record it leaves, and the action applies the operator   *)
(* to the current state.  A thrown exception ends every enclosing call:    *)
(* the record carries it in the field thrown and each caller returns the   *)
(* record unchanged once it is set.                                        *)
(***************************************************************************)
EXTENDS Integers, Sequences, FiniteSets, TLC

(***************************************************************************)
(* Bounds of the model.                                                    *)
(***************************************************************************)
\* the number of add operations (on, once, prepend...) of one run
MaxAdds == 3

\* the number of times a user function calls back into the registry in one call
MaxReentries == 1

(***************************************************************************)
(* Values.  A JavaScript value is a record: a user function, a Listener    *)
(* object wrapping a user function, or a string.                           *)
(***************************************************************************)
\* the user callbacks: plain functions that do not call the registry
Fns == {"f1", "f2"}

\* the event names the callers use; the two notification names are the
\* ones emit is called with by the registry itself
Names == {"t", "newListener", "removeListener"}

Fn(f) == [kind |-> "fn", v |-> f]

\* new Listener(fn): an object whose field listener is fn
Listener(fn) == [kind |-> "wrapper", v |-> fn.v]

Str(s) == [kind |-> "str", v |-> s]

Num(s) == [kind |-> "num", v |-> s]

\* listener instanceof Listener
IsListener(x) == x.kind = "wrapper"

\* (x as Listener).listener: the wrapped function of a Listener, undefined
\* for a plain function
ListenerOf(x) == IF IsListener(x) THEN Fn(x.v) ELSE [kind |-> "undefined", v |-> ""]

\* new Error(m)
Err(m) == [kind |-> "error", v |-> m]

\* the name the promise helper listens to for failures
ErrorName == "error"

\* names that are canonical array indices: Object.keys lists such keys
\* first, in ascending numeric order
IntegerNames == {"2", "10"}

\* the number an integer-like name stands for
ArrayIndex(n) == IF n = "2" THEN 2 ELSE 10

\* a name that is a symbol, written as its description
SymbolNames == {"Symbol(s)"}

\* the names callers use besides the ordinary strings of Names
MoreNames == IntegerNames \cup SymbolNames

\* typeof eventName === 'symbol'
IsSymbol(n) == n \in SymbolNames

Sym(s) == [kind |-> "symbol", v |-> s]

\* an event name as a value passed to a handler
NameValue(n) == IF IsSymbol(n) THEN Sym(n) ELSE Str(n)

\* the property keys this.events can have
Keys == Names \cup MoreNames \cup {ErrorName}

\* the two closures of the promise helper: the arrow function it registers
\* once under the name, and the promise's reject function
Resolver == Fn("resolver")
Reject == Fn("reject")

\* what a user function may do with the registry while it is called:
\* removeListener(eventName, itself), once(eventName, itself),
\* on(eventName, another function), emit(eventName, ...values)
Reentries == {"removeListener", "once", "on", "emit"}

\* a user function that does not call the registry
NoScript == [fn |-> "none", does |-> "nothing"]

\* no promise made yet
NoPromise == [state |-> "none", with |-> << >>, name |-> ""]

\* the array [s]
Arr(s) == [kind |-> "array", v |-> s]

\* values that are neither strings nor symbols, passed as event names
NotNames == {Num("1"), Arr("t")}

\* the entries a sequence can hold: the callers' functions, once-wrappers
\* of them, and the two entries of the promise helper
Entries ==
    {Fn(f) : f \in Fns} \cup {Listener(Fn(f)) : f \in Fns}
        \cup {Listener(Resolver), Reject}

\* the argument lists the callers emit with
ArgLists == {<< >>, <<Str("a"), Num("1")>>}

\* static defaultMaxListeners = 10: the value the class is loaded with
DefaultMaxListenersAtLoad == 10

\* a slip: the type check left out
IsAnything(x) == TRUE

\* listener instanceof Function
IsFunction(x) == x.kind = "fn"

\* the values callers pass where a number is expected: a number, Infinity,
\* NaN, or a string such as '15'
Number(n) == [kind |-> "number", n |-> n]

Infinity == [kind |-> "Infinity", n |-> 0]

NaN == [kind |-> "NaN", n |-> 0]

NumericString == [kind |-> "string", n |-> 15]

\* what setMaxListeners is called with: non-negative numbers, and the
\* values its error message calls out of range
MaxArgs == {Number(0), Number(1), Infinity}

OutOfRangeArgs == {Number(-1), NaN, NumericString}

\* what EventEmitter.defaultMaxListeners is assigned
DefaultArgs == {Number(1), Number(10)}

(***************************************************************************)
(* The state: the fields of one EventEmitter, and what the last call did.  *)
(***************************************************************************)
VARIABLES
    events,        \* this.events: name -> sequence of entries (<<>> when absent)
    keys,          \* the own keys of this.events, in insertion order
    eventsCount,   \* this.eventsCount
    maxListeners,  \* this.maxListeners: undefined (set = FALSE), Infinity (inf) or n
    defaultMaxListeners, \* EventEmitter.defaultMaxListeners, shared by all emitters
    faulty,        \* the user function that throws when called in the last call
    held,          \* the array a caller last got from listeners or rawListeners
    script,        \* the user function that calls the registry in the last call
    promise,       \* the promise of the once helper: its state and value
    op,            \* the last call: [name, eventName, listener, values]
    pre,           \* this.events when the last call began
    log,           \* what the last call did, in order
    ret,           \* what the last call returned
    thrown,        \* the exception the last call ended with, or "none"
    warned,        \* the console.warn calls of the last call
    added,         \* name -> entries ever inserted into the name's sequence
    removed        \* name -> entries ever spliced out of the name's sequence

vars == <<events, keys, eventsCount, maxListeners, defaultMaxListeners, faulty, held,
          script, promise,
          op, pre, log, ret, thrown, warned, added, removed>>

(***************************************************************************)
(* Sequence helpers: the Array methods the class uses.                     *)
(***************************************************************************)
\* a slip: listeners.splice(index), which cuts the array off at index
SpliceToEnd(listeners, index) == SubSeq(listeners, 1, index)

\* a slip: listeners.splice(index, 2)
SpliceTwo(listeners, index) ==
    SubSeq(listeners, 1, index) \o SubSeq(listeners, index + 3, Len(listeners))

\* a slip: listeners.splice(-1, 1), which takes the last entry out
SpliceLast(listeners, index) == SubSeq(listeners, 1, Len(listeners) - 1)

\* listeners.splice(index, 1), index counted from 0: the remaining array
Splice(listeners, index) ==
    [k \in 1..(Len(listeners) - 1) |->
        IF k <= index THEN listeners[k] ELSE listeners[k + 1]]

\* listeners.push(x)
Push(listeners, x) == Append(listeners, x)

\* listeners.unshift(x)
Unshift(listeners, x) == <<x>> \o listeners

\* the entries of the log, in the order the call made them:
\*   "emit"   emit(name, ...values) was entered, at the given nesting depth
\*   "call"   the user function fn was called by the emit of name at that
\*            depth, with this, the values, and the sequences it would observe
\*   "splice" the entry fn was spliced out of the array of name at index,
\*            leaving the sequences seen
EmitRec(eventName, values, depth, seen) ==
    [type |-> "emit", fn |-> [kind |-> "undefined", v |-> ""], values |-> values,
     name |-> eventName, index |-> -1, this |-> "emitter", depth |-> depth,
     seen |-> seen]

CallRec(fn, values, eventName, depth, seen) ==
    [type |-> "call", fn |-> fn, values |-> values, name |-> eventName,
     index |-> -1, this |-> "emitter", depth |-> depth, seen |-> seen]

SpliceRec(listener, eventName, index, depth, seen) ==
    [type |-> "splice", fn |-> listener, values |-> << >>, name |-> eventName,
     index |-> index, this |-> "emitter", depth |-> depth, seen |-> seen]

(***************************************************************************)
(* The methods, as operators on a registry record st with the fields       *)
(* events, keys, eventsCount, maxListeners, log, ret, thrown, warned,      *)
(* added, removed, defaultMaxListeners (the static field), faulty (the user *)
(* function that throws in this call, or "none") and depth: the number of  *)
(* emit calls on the stack.                                                *)
(***************************************************************************)
Throw(st, error) == [st EXCEPT !.thrown = error, !.ret = "none"]

Return(st, value) == [st EXCEPT !.ret = value]

\* return value after a call: not reached when the call threw
Returning(st, value) == IF st.thrown # "none" THEN st ELSE Return(st, value)

RECURSIVE emit(_, _, _), emitLoop(_, _, _, _), _removeListener(_, _, _),
          _on(_, _, _, _, _), on(_, _, _), once(_, _, _), removeListener(_, _, _)

\* resolve(value) or reject(reason) of the promise: a promise settles once
Settle(st, state, with) ==
    IF st.promise.state = "pending"
    THEN [st EXCEPT !.promise.state = state, !.promise.with = with]
    ELSE st

\* resolve(args) after emitter.off('error', reject): not reached when off threw
Resolve(st, args) ==
    IF st.thrown # "none" THEN st ELSE Settle(st, "resolved", args)

\* the other user function
OtherFn(fn) == Fn(CHOOSE g \in Fns : g # fn.v)

\* What the function fn does when it is called with the values during
\* emit(eventName).  The helper's arrow function takes the reject function
\* off 'error' and resolves with its arguments; reject rejects with its
\* first argument; the user function of the script calls the registry, while
\* it has calls left; every other function does nothing.
Body(st, fn, values, eventName) ==
    IF fn = Resolver
    THEN Resolve(removeListener(st, ErrorName, Reject), values)
    ELSE IF fn = Reject
    THEN Settle(st, "rejected", SubSeq(values, 1, 1))
    ELSE IF fn.v = st.script.fn /\ st.left > 0
    THEN LET s0 == [st EXCEPT !.left = @ - 1]
         IN CASE st.script.does = "removeListener" -> removeListener(s0, eventName, fn)
              [] st.script.does = "once" -> once(s0, eventName, fn)
              [] st.script.does = "on" -> on(s0, eventName, OtherFn(fn))
              [] OTHER -> emit(s0, eventName, values)
    ELSE st

\* a slip: a fault of the user function caught and dropped
applyQuietly(st, listener, values, eventName) ==
    IF IsListener(listener)
    THEN Throw(st, "TypeError")
    ELSE [st EXCEPT !.log = Append(@, CallRec(listener, values, eventName,
                                              st.depth, st.events))]

\* listener.apply(this, values) of emit.  A Listener object has the field
\* listener and the method call, and no method apply: applying one is
\* a TypeError (listener.apply is not a function).  A user function is
\* called with this = the emitter and the values.
\* A user function that faults throws its own Error out of apply; one
\* that calls the registry does so before apply returns.
apply(st, listener, values, eventName) ==
    IF IsListener(listener)
    THEN Throw(st, "TypeError")
    ELSE LET called == [st EXCEPT !.log = Append(@, CallRec(listener, values,
                                                   eventName, st.depth, st.events))]
         IN IF listener.v = st.faulty THEN Throw(called, "Error")
            ELSE Body(called, listener, values, eventName)

\* listener.apply(this, values) as the statement after the removal of a
\* once entry: not reached when the removal threw
applyNext(st, listener, values, eventName) ==
    IF st.thrown # "none" THEN st ELSE apply(st, listener, values, eventName)

\* the index emit continues with after the entry at i was handled:
\* i -= 1 after a removal, then the loop's i += 1
NextIndex(i, wasListener) == IF wasListener THEN (i - 1) + 1 ELSE i + 1

\* the value _removeListener passes to the removeListener notification:
\* the spliced entry itself
Notified(listener) == listener

\* a slip: the loop comparing the entries only, not what they wrap
FindIndexOfEntry(listeners, listener) ==
    LET hits == {i \in 0..(Len(listeners) - 1) : listeners[i + 1] = listener}
    IN IF hits = {} THEN -1
       ELSE CHOOSE i \in hits : \A j \in hits : i <= j

\* a slip: index starting at 0 instead of -1
FindIndexFromZero(listeners, listener) ==
    LET hits == {i \in 0..(Len(listeners) - 1) :
                    \/ listeners[i + 1] = listener
                    \/ ListenerOf(listeners[i + 1]) = listener}
    IN IF hits = {} THEN 0
       ELSE CHOOSE i \in hits : \A j \in hits : i <= j

\* the loop of removeListener: the first index (from 0) whose entry is the
\* listener or a Listener wrapping it, -1 when there is none
FindIndex(listeners, listener) ==
    LET hits == {i \in 0..(Len(listeners) - 1) :
                    \/ listeners[i + 1] = listener
                    \/ ListenerOf(listeners[i + 1]) = listener}
    IN IF hits = {} THEN -1
       ELSE CHOOSE i \in hits : \A j \in hits : i <= j

\* emit(eventName, ...values)
emit(st, eventName, values) ==
    LET s0 == [st EXCEPT !.depth = @ + 1,
                         !.log = Append(@, EmitRec(eventName, values, st.depth + 1,
                                                   st.events))]
        s1 == IF Len(s0.events[eventName]) = 0
              THEN Return(s0, "false")
              ELSE emitLoop(s0, eventName, values, 0)
    IN [s1 EXCEPT !.depth = st.depth]

\* the for loop of emit, from index i (counted from 0) on
emitLoop(st, eventName, values, i) ==
    IF st.thrown # "none" THEN st
    ELSE IF ~(i < Len(st.events[eventName])) THEN Return(st, "true")
    ELSE LET listener == st.events[eventName][i + 1]
             s1 == IF IsListener(listener)
                   THEN _removeListener(st, i, eventName)
                   ELSE st
             s2 == applyNext(s1, listener, values, eventName)
         IN emitLoop(s2, eventName, values, NextIndex(i, IsListener(listener)))

\* a slip: the index applied to every array of this.events
_removeListenerByIndex(st, index, eventName) ==
    LET listener == st.events[eventName][index + 1]
        s1 == [st EXCEPT !.eventsCount = @ - 1,
                         !.events = [n \in DOMAIN @ |->
                                        IF index < Len(@[n]) THEN Splice(@[n], index)
                                        ELSE @[n]],
                         !.removed[eventName] = @ + 1]
        s2 == [s1 EXCEPT !.log = Append(@, SpliceRec(listener, eventName, index,
                                                     s1.depth, s1.events))]
        s3 == emit(s2, "removeListener", <<NameValue(eventName), Notified(listener)>>)
    IN Returning(s3, listener)

\* _removeListener(index, eventName, listeners), listeners being the array
\* stored under eventName
_removeListener(st, index, eventName) ==
    LET listener == st.events[eventName][index + 1]
        rest == Splice(st.events[eventName], index)
        s1 == [st EXCEPT !.eventsCount = @ - 1,
                         !.events[eventName] = rest,
                         !.removed[eventName] = @ + 1]
        s2 == [s1 EXCEPT !.log = Append(@, SpliceRec(listener, eventName, index,
                                                     s1.depth, s1.events))]
        s3 == emit(s2, "removeListener", <<NameValue(eventName), Notified(listener)>>)
    IN Returning(s3, listener)

\* this.maxListeners ?? EventEmitter.defaultMaxListeners
EffectiveMax(st) ==
    IF st.maxListeners.set THEN st.maxListeners
    ELSE st.defaultMaxListeners

\* the condition under which _on warns
Exceeds(st) ==
    LET max == EffectiveMax(st)
    IN (max.inf \/ max.n # 0) /\ ~max.inf /\ st.eventsCount + 1 > max.n

\* _on after its emit('newListener'), s1 being what the emit left: the
\* entry made, the warning, the push or unshift, the count; not reached when
\* the emit threw.  The text of the warning is a template literal holding
\* ${eventName}: converting a symbol to a string throws a TypeError, before
\* console.warn is called and before the push.
Store(s1, eventName, listener, prepend, isOnce) ==
    LET newListener == IF isOnce THEN Listener(listener) ELSE listener
        listeners == s1.events[eventName]
        grown == IF prepend THEN Unshift(listeners, newListener)
                 ELSE Push(listeners, newListener)
        s2 == [s1 EXCEPT !.warned = IF Exceeds(s1) THEN @ + 1 ELSE @,
                         !.events[eventName] = grown,
                         !.keys = IF \E k \in 1..Len(@) : @[k] = eventName
                                  THEN @ ELSE Append(@, eventName),
                         !.added[eventName] = @ + 1,
                         !.eventsCount = @ + 1]
    IN IF s1.thrown # "none" THEN s1
       ELSE IF Exceeds(s1) /\ IsSymbol(eventName) THEN Throw(s1, "TypeError")
       ELSE Return(s2, "this")

\* a slip: the newListener notification made after the entry is stored
_onNotifyingLast(st, eventName, listener, prepend, isOnce) ==
    LET newListener == IF isOnce THEN Listener(listener) ELSE listener
        listeners == st.events[eventName]
        grown == IF prepend THEN Unshift(listeners, newListener)
                 ELSE Push(listeners, newListener)
        s1 == [st EXCEPT !.events[eventName] = grown,
                         !.keys = IF \E k \in 1..Len(@) : @[k] = eventName
                                  THEN @ ELSE Append(@, eventName),
                         !.added[eventName] = @ + 1,
                         !.eventsCount = @ + 1]
        s2 == emit(s1, "newListener", <<NameValue(eventName), listener>>)
    IN IF ~IsFunction(listener) THEN Throw(st, "TypeError")
       ELSE IF s2.thrown # "none" THEN s2
       ELSE Return(s2, "this")

\* _on(eventName, listener, prepend, once)
_on(st, eventName, listener, prepend, isOnce) ==
    IF ~IsFunction(listener) THEN Throw(st, "TypeError")
    ELSE Store(emit(st, "newListener", <<NameValue(eventName), listener>>),
               eventName, listener, prepend, isOnce)

on(st, eventName, listener) == _on(st, eventName, listener, FALSE, FALSE)

once(st, eventName, listener) ==
    IF ~IsFunction(listener) THEN Throw(st, "TypeError")
    ELSE _on(st, eventName, listener, FALSE, TRUE)

prependListener(st, eventName, listener) == _on(st, eventName, listener, TRUE, FALSE)

prependOnceListener(st, eventName, listener) ==
    IF ~IsFunction(listener) THEN Throw(st, "TypeError")
    ELSE _on(st, eventName, listener, TRUE, TRUE)

\* the exported once(emitter, name): a promise whose executor registers the
\* arrow function once under the name and reject under 'error'.  What the
\* executor throws rejects the promise; the helper itself returns the promise.
oncePromise(st, name) ==
    LET s0 == [st EXCEPT !.promise = [state |-> "pending", with |-> << >>,
                                      name |-> name]]
        s1 == once(s0, name, Resolver)
        s2 == IF s1.thrown # "none" THEN s1 ELSE on(s1, ErrorName, Reject)
    IN IF s2.thrown # "none"
       THEN Return([Settle(s2, "rejected", <<Err(s2.thrown)>>)
                        EXCEPT !.thrown = "none"], "promise")
       ELSE Return(s2, "promise")

\* removeListener(eventName, listener)
removeListener(st, eventName, listener) ==
    LET listeners == st.events[eventName]
        index == FindIndex(listeners, listener)
    IN IF ~IsFunction(listener) THEN Throw(st, "TypeError")
       ELSE IF Len(listeners) = 0 THEN Return(st, "this")
       ELSE IF index = -1 THEN Return(st, "this")
       ELSE Returning(_removeListener(st, index, eventName), "this")

\* a slip: the removeListener handlers told of a bulk clear
removeAllListenersNotifying(st, eventName) ==
    LET s1 == emit(st, "removeListener", <<NameValue(eventName)>>)
    IN Return([s1 EXCEPT !.events = [n \in DOMAIN @ |->
                                       IF eventName \in {"undefined", n}
                                       THEN << >> ELSE @[n]],
                         !.keys = SelectSeq(@, LAMBDA k :
                                         eventName \notin {"undefined", k})],
              "this")

\* a slip: the name ignored, every sequence dropped
removeAllListenersOfAll(st, eventName) ==
    Return([st EXCEPT !.events = [n \in DOMAIN @ |-> << >>], !.keys = << >>], "this")

\* removeAllListeners(eventName): delete this.events[eventName], or with
\* eventName undefined this.events = {}
removeAllListeners(st, eventName) ==
    IF eventName # "undefined"
    THEN Return([st EXCEPT !.events = [n \in DOMAIN @ |->
                                         IF n = eventName THEN << >> ELSE @[n]],
                           !.keys = SelectSeq(@, LAMBDA k : k # eventName)],
                "this")
    ELSE Return([st EXCEPT !.events = [n \in DOMAIN @ |-> << >>],
                           !.keys = << >>],
                "this")

\* this.events[eventName] with an eventName that is no string: the key is
\* the value converted to a string (String(1) is '1', String(['t']) is 't')
ToPropertyKey(name) == name.v

\* removeAllListeners(eventName) with a value of any type for eventName
removeAllListenersOf(st, name) == removeAllListeners(st, ToPropertyKey(name))

\* An array in a caller's hands: ref tells whether it is an array of its own
\* ("fresh") or the very array stored under the name ref; of is the name it
\* was asked for; items is what it holds.
NoArray == [ref |-> "none", of |-> "", items |-> << >>]

\* listener.listener ?? listener
Unwrapped(listener) ==
    IF ListenerOf(listener).kind # "undefined" THEN ListenerOf(listener)
    ELSE listener

\* listeners(eventName): (this.events[eventName] ?? []).map(...), a new array
listeners(st, eventName) ==
    LET stored == st.events[eventName]
    IN Return([st EXCEPT !.held = [ref |-> "fresh", of |-> eventName,
                                   items |-> [k \in 1..Len(stored) |->
                                                 Unwrapped(stored[k])]]],
              "array")

\* a slip: the stored array handed out, not a copy of it
rawListenersShared(st, eventName) ==
    Return([st EXCEPT !.held = [ref |-> eventName, of |-> eventName,
                                items |-> st.events[eventName]]],
           "array")

\* rawListeners(eventName): [...this.events[eventName] ?? []], a new array
rawListeners(st, eventName) ==
    Return([st EXCEPT !.held = [ref |-> "fresh", of |-> eventName,
                                items |-> st.events[eventName]]],
           "array")

\* what a caller does to the array it holds: array.length = 0 or
\* array.push(x).  An array is changed for everyone who refers to it.
Mutated(items, how, x) == IF how = "truncate" THEN << >> ELSE Push(items, x)

MutateArray(st, how, x) ==
    LET items == Mutated(st.held.items, how, x)
    IN IF st.held.ref \in DOMAIN st.events
       THEN [st EXCEPT !.held.items = items, !.events[st.held.ref] = items]
       ELSE [st EXCEPT !.held.items = items]

\* a slip: || in place of ??, which takes an override of 0 for none
getMaxListenersOr(st) ==
    IF st.maxListeners.set /\ (st.maxListeners.inf \/ st.maxListeners.n # 0)
    THEN st.maxListeners ELSE st.defaultMaxListeners

\* getMaxListeners()
getMaxListeners(st) ==
    IF st.maxListeners.set THEN st.maxListeners ELSE st.defaultMaxListeners

\* setMaxListeners(n): a RangeError unless n is of type number and not NaN
setMaxListeners(st, n) ==
    IF n.kind \notin {"number", "Infinity", "NaN"} \/ n.kind = "NaN"
    THEN Throw(st, "RangeError")
    ELSE Return([st EXCEPT !.maxListeners =
                    [set |-> TRUE, inf |-> (n.kind = "Infinity"), n |-> n.n]],
                "this")

\* EventEmitter.defaultMaxListeners = n, by any code that has the class
setDefaultMaxListeners(st, n) ==
    [st EXCEPT !.defaultMaxListeners =
        [set |-> TRUE, inf |-> (n.kind = "Infinity"), n |-> n.n]]

\* listenerCount(eventName)
listenerCount(st, eventName) == Len(st.events[eventName])

\* the integer-like names of a set, in ascending numeric order
RECURSIVE Ascending(_)
Ascending(S) ==
    IF S = {} THEN << >>
    ELSE LET least == CHOOSE n \in S : \A m \in S : ArrayIndex(n) <= ArrayIndex(m)
         IN <<least>> \o Ascending(S \ {least})

\* a slip: Object.keys taken to list the string keys in creation order
eventNamesAsCreated(st) == SelectSeq(st.keys, LAMBDA k : ~IsSymbol(k))

\* eventNames(): Object.keys(this.events), the own string keys of the
\* object: the integer-like ones first, in ascending numeric order, then
\* the other strings in the order the keys were created; no symbol keys
eventNames(st) ==
    Ascending({n \in IntegerNames : \E k \in 1..Len(st.keys) : st.keys[k] = n})
        \o SelectSeq(st.keys, LAMBDA k : k \notin IntegerNames /\ ~IsSymbol(k))

(***************************************************************************)
(* The state machine.                                                      *)
(***************************************************************************)
\* the registry record of the current state, at the start of a call
Here ==
    [events |-> events, keys |-> keys, eventsCount |-> eventsCount,
     maxListeners |-> maxListeners, log |-> << >>, ret |-> "none",
     thrown |-> "none", warned |-> 0, added |-> added, removed |-> removed,
     defaultMaxListeners |-> defaultMaxListeners, faulty |-> "none",
     held |-> held, script |-> NoScript, left |-> 0, promise |-> promise,
     depth |-> 0]

\* the state a call leaves: the record it returns and the call it was
Becomes(st, call) ==
    /\ events' = st.events
    /\ keys' = st.keys
    /\ eventsCount' = st.eventsCount
    /\ maxListeners' = st.maxListeners
    /\ defaultMaxListeners' = st.defaultMaxListeners
    /\ faulty' = st.faulty
    /\ held' = st.held
    /\ script' = st.script
    /\ promise' = st.promise
    /\ log' = st.log
    /\ ret' = st.ret
    /\ thrown' = st.thrown
    /\ warned' = st.warned
    /\ added' = st.added
    /\ removed' = st.removed
    /\ op' = call
    /\ pre' = events

Call(method, eventName, listener, values) ==
    [method |-> method, eventName |-> eventName, listener |-> listener,
     values |-> values]

NoListener == [kind |-> "undefined", v |-> ""]

TotalAdded ==
    added["t"] + added["newListener"] + added["removeListener"]
        + added["2"] + added["10"] + added["Symbol(s)"] + added[ErrorName]

\* new EventEmitter()
Init ==
    /\ events = [n \in Keys |-> << >>]
    /\ keys = << >>
    /\ eventsCount = 0
    /\ maxListeners = [set |-> FALSE, inf |-> FALSE, n |-> 0]
    /\ defaultMaxListeners = [set |-> TRUE, inf |-> FALSE, n |-> DefaultMaxListenersAtLoad]
    /\ faulty = "none"
    /\ held = NoArray
    /\ script = NoScript
    /\ promise = NoPromise
    /\ op = Call("constructor", "", NoListener, << >>)
    /\ pre = [n \in Keys |-> << >>]
    /\ log = << >>
    /\ ret = "none"
    /\ thrown = "none"
    /\ warned = 0
    /\ added = [n \in Keys |-> 0]
    /\ removed = [n \in Keys |-> 0]

DoOn ==
    \E n \in Names, f \in Fns :
        /\ TotalAdded < MaxAdds
        /\ Becomes(on(Here, n, Fn(f)), Call("on", n, Fn(f), << >>))

DoOnce ==
    \E n \in Names, f \in Fns :
        /\ TotalAdded < MaxAdds
        /\ Becomes(once(Here, n, Fn(f)), Call("once", n, Fn(f), << >>))

DoPrependListener ==
    \E n \in Names, f \in Fns :
        /\ TotalAdded < MaxAdds
        /\ Becomes(prependListener(Here, n, Fn(f)),
                   Call("prependListener", n, Fn(f), << >>))

DoPrependOnceListener ==
    \E n \in Names, f \in Fns :
        /\ TotalAdded < MaxAdds
        /\ Becomes(prependOnceListener(Here, n, Fn(f)),
                   Call("prependOnceListener", n, Fn(f), << >>))

DoRemoveListener ==
    \E n \in Names, f \in Fns :
        Becomes(removeListener(Here, n, Fn(f)),
                Call("removeListener", n, Fn(f), << >>))

DoEmit ==
    \E n \in Names, values \in ArgLists :
        Becomes(emit(Here, n, values), Call("emit", n, NoListener, values))

DoRemoveAllListeners ==
    \E n \in Names \cup {"undefined"} :
        Becomes(removeAllListeners(Here, n),
                Call("removeAllListeners", n, NoListener, << >>))

\* removeAllListeners called with a name that is no string and no symbol
DoRemoveAllListenersOfOther ==
    \E name \in NotNames :
        Becomes(removeAllListenersOf(Here, name),
                Call("removeAllListeners", ToPropertyKey(name), NoListener, <<name>>))

\* on, once, prependListener, prependOnceListener or removeListener called
\* with a listener that is no function (undefined)
DoCallWithoutFunction ==
    \E n \in Names,
       method \in {"on", "once", "prependListener", "prependOnceListener",
                   "removeListener"} :
        LET st == CASE method = "on" -> on(Here, n, NoListener)
                    [] method = "once" -> once(Here, n, NoListener)
                    [] method = "prependListener" -> prependListener(Here, n, NoListener)
                    [] method = "prependOnceListener" ->
                           prependOnceListener(Here, n, NoListener)
                    [] OTHER -> removeListener(Here, n, NoListener)
        IN Becomes(st, Call(method, n, NoListener, << >>))

\* emit while one of the user functions faults when it is called
DoEmitFaulting ==
    \E n \in Names, values \in ArgLists, f \in Fns :
        Becomes(emit([Here EXCEPT !.faulty = f], n, values),
                Call("emit", n, NoListener, values))

DoSetMaxListeners ==
    \E n \in MaxArgs :
        Becomes(setMaxListeners(Here, n), Call("setMaxListeners", "", NoListener, <<n>>))

DoSetMaxListenersOutOfRange ==
    \E n \in OutOfRangeArgs :
        Becomes(setMaxListeners(Here, n), Call("setMaxListeners", "", NoListener, <<n>>))

DoSetDefaultMaxListeners ==
    \E n \in DefaultArgs :
        Becomes(setDefaultMaxListeners(Here, n),
                Call("defaultMaxListeners", "", NoListener, <<n>>))

\* emit while one of the user functions calls the registry when it is called
DoEmitReentrant ==
    \E n \in Names, f \in Fns, does \in Reentries :
        /\ (does \in {"once", "on"}) => (TotalAdded < MaxAdds)
        /\ Becomes(emit([Here EXCEPT !.script = [fn |-> f, does |-> does],
                                     !.left = MaxReentries], n, << >>),
                   Call("emit", n, NoListener, << >>))

\* once(emitter, name), the promise helper, called at most once in a run
DoOncePromise ==
    \E n \in Names :
        /\ promise.state = "none"
        /\ TotalAdded + 1 < MaxAdds
        /\ Becomes(oncePromise(Here, n), Call("oncePromise", n, NoListener, << >>))

\* emit('error', new Error(...))
DoEmitError ==
    Becomes(emit(Here, ErrorName, <<Err("e")>>),
            Call("emit", ErrorName, NoListener, <<Err("e")>>))

DoListeners ==
    \E n \in Names :
        Becomes(listeners(Here, n), Call("listeners", n, NoListener, << >>))

DoRawListeners ==
    \E n \in Names :
        Becomes(rawListeners(Here, n), Call("rawListeners", n, NoListener, << >>))

\* the caller changes the array it got from listeners or rawListeners
DoMutateArray ==
    \E how \in {"truncate", "push"}, f \in Fns :
        /\ held.ref # "none"
        /\ Len(held.items) <= Len(events[held.of])
        /\ Becomes(MutateArray(Here, how, Fn(f)), Call(how, held.of, Fn(f), << >>))

\* the calls that add or remove one registration at a time, and emit
NextNoClear ==
    \/ DoOn
    \/ DoOnce
    \/ DoPrependListener
    \/ DoPrependOnceListener
    \/ DoRemoveListener
    \/ DoEmit

Next ==
    \/ NextNoClear
    \/ DoRemoveAllListeners

Spec == Init /\ [][Next]_vars

\* the runs in which the ceiling is set and changed while registrations are
\* added and removed
NextCeiling ==
    \/ DoOn
    \/ DoOnce
    \/ DoPrependListener
    \/ DoPrependOnceListener
    \/ DoRemoveAllListeners
    \/ DoSetMaxListeners

SpecCeiling == Init /\ [][NextCeiling]_vars

\* the runs in which the override and the global default are set, with
\* every kind of argument, between adds
NextOverride ==
    \/ DoOn
    \/ DoSetMaxListeners
    \/ DoSetMaxListenersOutOfRange
    \/ DoSetDefaultMaxListeners

SpecOverride == Init /\ [][NextOverride]_vars

\* the runs in which callers also pass listeners that are no functions
NextNotFunctions ==
    \/ DoOn
    \/ DoOnce
    \/ DoPrependListener
    \/ DoPrependOnceListener
    \/ DoRemoveListener
    \/ DoCallWithoutFunction

SpecNotFunctions == Init /\ [][NextNotFunctions]_vars

\* the runs in which user functions may fault during an emit
NextFaulting ==
    \/ DoOn
    \/ DoOnce
    \/ DoRemoveListener
    \/ DoEmit
    \/ DoEmitFaulting

SpecFaulting == Init /\ [][NextFaulting]_vars

\* the runs in which callers ask for the listeners of a name and change
\* the array they get
NextCopies ==
    \/ DoOn
    \/ DoOnce
    \/ DoListeners
    \/ DoRawListeners
    \/ DoMutateArray

SpecCopies == Init /\ [][NextCopies]_vars

\* the runs in which sequences are cleared in bulk, by names of any type
NextBulkClear ==
    \/ DoOn
    \/ DoOnce
    \/ DoRemoveAllListeners
    \/ DoRemoveAllListenersOfOther

SpecBulkClear == Init /\ [][NextBulkClear]_vars

\* on called with an integer-like name or a symbol
DoOnMore ==
    \E n \in MoreNames, f \in Fns :
        /\ TotalAdded < MaxAdds
        /\ Becomes(on(Here, n, Fn(f)), Call("on", n, Fn(f), << >>))

\* removeListener called with an integer-like name or a symbol
DoRemoveListenerMore ==
    \E n \in MoreNames, f \in Fns :
        Becomes(removeListener(Here, n, Fn(f)),
                Call("removeListener", n, Fn(f), << >>))

\* removeAllListeners called with an integer-like name or a symbol
DoRemoveAllListenersMore ==
    \E n \in MoreNames :
        Becomes(removeAllListeners(Here, n),
                Call("removeAllListeners", n, NoListener, << >>))

\* the runs in which names of every kind are registered, emptied and
\* cleared
NextNames ==
    \/ DoOnce
    \/ DoOnMore
    \/ DoRemoveListenerMore
    \/ DoEmit
    \/ DoRemoveAllListeners
    \/ DoRemoveAllListenersMore

SpecNames == Init /\ [][NextNames]_vars

\* the runs in which the ceiling is set while names of every kind are
\* registered
NextCeilingNames ==
    \/ DoOn
    \/ DoOnMore
    \/ DoSetMaxListeners

SpecCeilingNames == Init /\ [][NextCeilingNames]_vars

\* the runs in which a user function calls the registry during emit
NextReentrant ==
    \/ DoOn
    \/ DoOnce
    \/ DoEmitReentrant

SpecReentrant == Init /\ [][NextReentrant]_vars

\* the runs with the promise helper
NextPromise ==
    \/ DoOn
    \/ DoOnce
    \/ DoOncePromise
    \/ DoEmit
    \/ DoEmitError

SpecPromise == Init /\ [][NextPromise]_vars

\* the runs without a bulk clear
SpecNoClear == Init /\ [][NextNoClear]_vars

(***************************************************************************)
(* What the claims speak of.                                               *)
(***************************************************************************)
\* the callback a caller registered, for a stored entry of either kind
Original(e) == Fn(e.v)

\* s without its entry at index i (counted from 0)
Without(s, i) == SubSeq(s, 1, i) \o SubSeq(s, i + 2, Len(s))

\* the name the last call was for, and that name's sequence before it
TheName == op.eventName

Before == pre[TheName]

\* the user functions the last call's own emit called, in order
TopCalls == SelectSeq(log, LAMBDA r : r.type = "call" /\ r.depth = 1)

\* the positions of the log
Steps == 1..Len(log)

\* the last call was emit of a name
Emitted == op.method = "emit" /\ faulty = "none" /\ script = NoScript

\* the walk over a sequence as the claims describe it: a plain entry is
\* called, a once entry is spliced out and then its original is called
RECURSIVE ExpectedWalk(_)
ExpectedWalk(s) ==
    IF s = << >> THEN << >>
    ELSE (IF IsListener(Head(s))
          THEN <<[type |-> "splice", fn |-> Head(s)],
                 [type |-> "call", fn |-> Original(Head(s))]>>
          ELSE <<[type |-> "call", fn |-> Head(s)]>>) \o ExpectedWalk(Tail(s))

\* the walk the last call's own emit made over its name's sequence
Walk ==
    LET mine == SelectSeq(log, LAMBDA r : /\ r.depth = 1
                                          /\ r.name = TheName
                                          /\ r.type \in {"splice", "call"})
    IN [k \in 1..Len(mine) |-> [type |-> mine[k].type, fn |-> mine[k].fn]]

(***************************************************************************)
(* C1.  emit(name, args) on a name with registrations calls every          *)
(* registration stored at call time once, in sequence order, with the      *)
(* registry as this and the supplied args, and returns.                    *)
(***************************************************************************)
\* C1 (as claimed): after emit(name, args) on a non-empty sequence, the
\* functions called are the originals of the stored entries, in order, each
\* with this = the emitter and the args, and emit has returned.
C1_EmitInvokesAll ==
    (Emitted /\ Len(Before) > 0) =>
        /\ thrown = "none"
        /\ Len(TopCalls) = Len(Before)
        /\ \A k \in 1..Len(TopCalls) :
              /\ k <= Len(Before)
              /\ TopCalls[k].fn = Original(Before[k])
              /\ TopCalls[k].values = op.values
              /\ TopCalls[k].this = "emitter"
              /\ TopCalls[k].name = TheName

(***************************************************************************)
(* C2.  A once-registered listener is called by the next emit of its name  *)
(* and is gone from the sequence when that emit returns.                   *)
(***************************************************************************)
\* C2 (as claimed): an emit of a name that holds once entries returns,
\* has called the original of each of them, and leaves no once entry.
C2_OnceFiresThenGone ==
    (Emitted /\ \E k \in 1..Len(Before) : IsListener(Before[k])) =>
        /\ thrown = "none"
        /\ \A k \in 1..Len(Before) :
              IsListener(Before[k]) =>
                  \E j \in Steps : /\ log[j].type = "call"
                                   /\ log[j].depth = 1
                                   /\ log[j].fn = Original(Before[k])
        /\ \A k \in 1..Len(events[TheName]) : ~IsListener(events[TheName][k])

(***************************************************************************)
(* C3.  Splicing a once entry out at position i during emit neither skips  *)
(* the entry that shifts into position i nor visits an entry twice.        *)
(***************************************************************************)
\* C3 (as claimed): the walk of emit visits the entries of the sequence
\* one by one in order, whatever the mix of plain and once entries: each
\* plain entry is called, each once entry is spliced out and called.
C3_WalkSkipsNothing ==
    Emitted => Walk = ExpectedWalk(Before)

(***************************************************************************)
(* C4.  emit returns false exactly when the name has no listeners, and     *)
(* true otherwise; returning false it did nothing.                         *)
(***************************************************************************)
\* C4 (as claimed): emit returned false iff the sequence was empty and
\* true otherwise; when false, nothing was called or spliced, no
\* notification was emitted and the sequences are as before.
C4_EmitReturnsFalseIffEmpty ==
    Emitted =>
        /\ (ret = "false") <=> (Len(Before) = 0)
        /\ (Len(Before) # 0) => (ret = "true")
        /\ (ret = "false") => (events = pre /\ Len(log) = 1)

(***************************************************************************)
(* C5.  Without a bulk clear, listenerCount(name) is the number of adds    *)
(* for name minus the number of removals for name (removeListener and      *)
(* once-firing); 0 for a name never registered.                            *)
(***************************************************************************)
\* C5: for every name, listenerCount(name) = adds - removals, and it is 0
\* for a name nothing was ever added to.
C5_CountIsAddsMinusRemovals ==
    \A n \in Names :
        /\ listenerCount(Here, n) = added[n] - removed[n]
        /\ (added[n] = 0) => (listenerCount(Here, n) = 0)

\* C5 witness: a name with two adds, one of them removed again by a once
\* entry firing in the emit just made, and a non-zero count.
C5_Witness ==
    /\ Emitted
    /\ added[TheName] >= 2
    /\ removed[TheName] >= 1
    /\ listenerCount(Here, TheName) >= 1
    /\ \E j \in Steps : log[j].type = "splice" /\ log[j].name = TheName

(***************************************************************************)
(* C6.  Which of several matching registrations removeListener removes.    *)
(***************************************************************************)
\* the last call was removeListener(name, fn) and some entry matched fn
RemovedAMatch ==
    /\ op.method = "removeListener"
    /\ \E k \in 1..Len(Before) : Original(Before[k]) = op.listener

\* the index (from 0) removeListener spliced at
SplicedAt == log[1].index

\* C6 (as claimed): removeListener removes the registration at the last
\* matching index; from [fn, g, once(fn)] it leaves [fn, g].  (The loop of
\* removeListener stops at the first matching index instead.)
C6_RemovesLastMatch ==
    RemovedAMatch =>
        LET hits == {k \in 1..Len(Before) : Original(Before[k]) = op.listener}
            last == CHOOSE k \in hits : \A h \in hits : h <= k
        IN /\ Len(log) >= 1
           /\ log[1].type = "splice"
           /\ log[1].seen[TheName] = Without(Before, last - 1)
           /\ (TheName = "t" /\ op.listener = Fn("f1")
                   /\ Before = <<Fn("f1"), Fn("f2"), Listener(Fn("f1"))>>)
                 => (events["t"] = <<Fn("f1"), Fn("f2")>>)

(***************************************************************************)
(* C7.  removeListener matches the function itself or a once-wrapper of    *)
(* it, and on a match removes exactly one entry, keeping the order.        *)
(***************************************************************************)
\* C7 (as claimed): on a match the name's sequence is one shorter after the
\* call and is the earlier sequence without the one matching entry.
C7_LengthDropsByOne ==
    RemovedAMatch =>
        /\ Len(events[TheName]) = Len(Before) - 1
        /\ \E i \in 0..(Len(Before) - 1) :
              /\ Original(Before[i + 1]) = op.listener
              /\ events[TheName] = Without(Before, i)

\* C7 (amended): on a match (the entry is fn or a once-wrapper of fn)
\* removeListener itself splices exactly one entry out, a matching one, and
\* the sequence it notifies about is the earlier one without that entry, no
\* other sequence touched; that is also the sequence the call leaves, unless
\* the name is removeListener and a once entry remains in it (the
\* notification then consumes that entry as well).
C7_SplicesOneMatch ==
    RemovedAMatch =>
        /\ Len(log) >= 1
        /\ log[1].type = "splice"
        /\ log[1].name = TheName
        /\ Cardinality({j \in Steps : log[j].type = "splice" /\ log[j].depth = 0}) = 1
        /\ log[1].fn = Before[SplicedAt + 1]
        /\ Original(log[1].fn) = op.listener
        /\ log[1].seen = [pre EXCEPT ![TheName] = Without(Before, SplicedAt)]
        /\ (\/ TheName # "removeListener"
            \/ \A k \in 1..Len(log[1].seen[TheName]) :
                  ~IsListener(log[1].seen[TheName][k]))
              => (events[TheName] = Without(Before, SplicedAt))

\* C7 witness: removeListener(name, fn) found only a once-wrapper of fn,
\* among other entries, and removed it.
C7_Witness ==
    /\ RemovedAMatch
    /\ Len(Before) >= 2
    /\ \A k \in 1..Len(Before) : Before[k] # op.listener
    /\ Len(events[TheName]) = Len(Before) - 1
    /\ thrown = "none"

(***************************************************************************)
(* C8.  removeListener on a name without listeners, or without a match,    *)
(* changes nothing, notifies nobody and returns the registry.              *)
(***************************************************************************)
\* C8: when no entry of the name matches fn (or there is none), every
\* sequence is as before, nothing was spliced, emitted or called, and the
\* call returned the registry.
C8_NoMatchNoEffect ==
    (op.method = "removeListener"
        /\ \A k \in 1..Len(Before) : Original(Before[k]) # op.listener) =>
        /\ events = pre
        /\ log = << >>
        /\ ret = "this"
        /\ thrown = "none"

\* C8 witness: removeListener(name, fn) on a name whose only entries are
\* other functions, while removeListener handlers are registered.
C8_Witness ==
    /\ op.method = "removeListener"
    /\ TheName # "removeListener"
    /\ Len(Before) >= 1
    /\ \A k \in 1..Len(Before) : Original(Before[k]) # op.listener
    /\ Len(pre["removeListener"]) >= 1
    /\ ret = "this"

(***************************************************************************)
(* C9.  Every single removal notifies removeListener exactly once with     *)
(* (eventName, original listener).                                         *)
(***************************************************************************)
\* C9 (as claimed): every splice is followed at once by one emit of
\* removeListener with the name and the original callback of the spliced
\* entry (not the wrapper), and removeListener is emitted by the registry
\* for nothing else.
C9_NotifiesOriginalOnce ==
    /\ \A k \in Steps :
          (log[k].type = "splice") =>
              /\ k < Len(log)
              /\ log[k + 1].type = "emit"
              /\ log[k + 1].name = "removeListener"
              /\ log[k + 1].values = <<Str(log[k].name), Original(log[k].fn)>>
    /\ \A k \in Steps :
          (log[k].type = "emit" /\ log[k].name = "removeListener"
              /\ ~(k = 1 /\ Emitted)) =>
              (k > 1 /\ log[k - 1].type = "splice")

(***************************************************************************)
(* C10.  A once entry firing: spliced out, then the removeListener         *)
(* handlers (which see the sequence without it), then the listener.        *)
(***************************************************************************)
\* C10 (as claimed): for every once entry the emit splices out, the
\* listeners before it have been called, then the removeListener handlers
\* run, seeing the sequence without the entry, and then the entry's
\* original callback is called.
C10_OnceOrder ==
    Emitted =>
        \A k \in Steps :
            (log[k].type = "splice" /\ log[k].depth = 1) =>
                \E m \in Steps :
                    /\ m > k
                    /\ log[m].type = "call"
                    /\ log[m].depth = 1
                    /\ log[m].fn = Original(log[k].fn)
                    /\ \A j \in (k + 1)..(m - 1) :
                          /\ log[j].depth >= 2
                          /\ (log[j].type = "call" /\ log[j].depth = 2) =>
                                (log[j].seen[TheName] = log[k].seen[TheName])
                    /\ \A j \in 1..log[k].index :
                          \E c \in 1..(k - 1) :
                              /\ log[c].type = "call"
                              /\ log[c].depth = 1
                              /\ log[c].fn = Original(log[k].seen[TheName][j])

(***************************************************************************)
(* C11.  Every successful add notifies newListener once, with the name and *)
(* the original listener, before the new entry is in the sequence.         *)
(***************************************************************************)
AddMethods == {"on", "once", "prependListener", "prependOnceListener"}

\* the last call was an add, with a function, that returned
Added == op.method \in AddMethods /\ IsFunction(op.listener) /\ thrown = "none"

\* the entry the last add stored: the listener, or a once-wrapper of it
Stored ==
    IF op.method \in {"once", "prependOnceListener"}
    THEN Listener(op.listener) ELSE op.listener

\* C11: a successful add began by emitting newListener with (name, listener),
\* did so once, and the newListener handlers called are exactly those
\* registered before the call, each seeing every sequence as it was before
\* the call (without the new entry, also when the name is newListener
\* itself); the entry is in the sequence afterwards.
C11_NewListenerBeforeAdd ==
    Added =>
        /\ Len(log) >= 1
        /\ log[1].type = "emit"
        /\ log[1].name = "newListener"
        /\ log[1].values = <<Str(TheName), op.listener>>
        /\ log[1].seen = pre
        /\ Cardinality({j \in Steps : log[j].type = "emit"
                                        /\ log[j].name = "newListener"}) = 1
        /\ Len(TopCalls) = Len(pre["newListener"])
        /\ \A k \in 1..Len(TopCalls) :
              /\ TopCalls[k].fn = pre["newListener"][k]
              /\ TopCalls[k].values = <<Str(TheName), op.listener>>
              /\ TopCalls[k].seen = pre
        /\ Len(events[TheName]) = Len(Before) + 1

\* C11 witness: a handler was added under newListener while another handler
\* was registered there: the old one was notified, the new one was not.
C11_Witness ==
    /\ Added
    /\ TheName = "newListener"
    /\ Len(Before) >= 1
    /\ Len(TopCalls) = Len(Before)
    /\ Len(events["newListener"]) = Len(Before) + 1

(***************************************************************************)
(* C12.  on/once append, prependListener/prependOnceListener insert at the *)
(* front; the order of the existing entries is kept.                       *)
(***************************************************************************)
\* C12: after on/once the sequence is the earlier one with the new entry at
\* the back, after prependListener/prependOnceListener with the new entry
\* at the front (for prependOnceListener a once-wrapper at index 0); and an
\* emit calls the listener of the entry at the front, the one prepended
\* last, before every other listener of the name: the entry itself if it
\* is plain, the original of the once-wrapper if prependOnceListener put it
\* there.
C12_AppendOrPrepend ==
    /\ (Added /\ op.method \in {"on", "once"}) =>
            (events[TheName] = Before \o <<Stored>>)
    /\ (Added /\ op.method \in {"prependListener", "prependOnceListener"}) =>
            /\ events[TheName] = <<Stored>> \o Before
            /\ (op.method = "prependOnceListener") =>
                   (IsListener(events[TheName][1])
                       /\ ListenerOf(events[TheName][1]) = op.listener)
    /\ (Emitted /\ Len(Before) >= 1) =>
            /\ Len(TopCalls) >= 1
            /\ TopCalls[1].fn = Original(Before[1])
            /\ ~IsListener(Before[1]) => (log[2] = TopCalls[1])

(***************************************************************************)
(* C13.  An add warns exactly when the number of registrations of that     *)
(* name, after the add, exceeds the effective ceiling.                     *)
(***************************************************************************)
\* the ceiling in force: the override if set, else the global default
Ceiling == getMaxListeners(Here)

\* C13 (as claimed): a successful add warned once if the name's own
\* sequence is now longer than the ceiling (a ceiling other than 0 and
\* Infinity), and did not warn otherwise, whatever other names hold.
C13_WarnsIffNameExceeds ==
    (Added /\ ~Ceiling.inf /\ Ceiling.n # 0) =>
        (warned = IF Len(events[TheName]) > Ceiling.n THEN 1 ELSE 0)

(***************************************************************************)
(* C14.  The ceiling is soft: 0 and Infinity switch the warning off, and   *)
(* an add that exceeds the ceiling is still made.                          *)
(***************************************************************************)
\* C14: with a ceiling of 0 or Infinity an add never warns; an add that
\* warned did not throw, returned the registry and stored its entry; and an
\* add of a function that takes the name's sequence over the ceiling (a
\* ceiling other than 0 and Infinity) did not throw, returned the registry
\* and stored its entry.
C14_SoftLimit ==
    (op.method \in AddMethods) =>
        /\ (Ceiling.inf \/ Ceiling.n = 0) => (warned = 0)
        /\ (warned > 0) =>
              /\ thrown = "none"
              /\ ret = "this"
              /\ Len(events[TheName]) = Len(Before) + 1
              /\ \E k \in 1..Len(events[TheName]) : events[TheName][k] = Stored
        /\ (IsFunction(op.listener) /\ ~Ceiling.inf /\ Ceiling.n # 0
                /\ Len(Before) + 1 > Ceiling.n) =>
              /\ thrown = "none"
              /\ ret = "this"
              /\ Len(events[TheName]) = Len(Before) + 1
              /\ \E k \in 1..Len(events[TheName]) : events[TheName][k] = Stored

(***************************************************************************)
(* C15.  setMaxListeners(n) is a RangeError for a negative n and for NaN,  *)
(* and sets the override for any other number.                             *)
(***************************************************************************)
\* the number the last setMaxListeners was called with
Asked == op.values[1]

\* C15 (as claimed): setMaxListeners(n) with n negative or NaN threw a
\* RangeError and the override is not n; with any other number it returned
\* the registry and the override is n.
C15_RejectsNegativeAndNaN ==
    (op.method = "setMaxListeners") =>
        /\ (Asked.kind = "NaN" \/ (Asked.kind = "number" /\ Asked.n < 0)) =>
              /\ thrown = "RangeError"
              /\ ~(maxListeners.set /\ ~maxListeners.inf /\ maxListeners.n < 0)
        /\ (Asked.kind = "Infinity" \/ (Asked.kind = "number" /\ Asked.n >= 0)) =>
              /\ thrown = "none"
              /\ ret = "this"
              /\ maxListeners = [set |-> TRUE, inf |-> (Asked.kind = "Infinity"),
                                 n |-> Asked.n]

(***************************************************************************)
(* C16.  getMaxListeners() is the override when one was set, else the      *)
(* current global default, 10 at first.                                    *)
(***************************************************************************)
\* the number n as getMaxListeners returns it
AsCeiling(n) == [set |-> TRUE, inf |-> (n.kind = "Infinity"), n |-> n.n]

\* C16: getMaxListeners() is 10 for a new registry; a setMaxListeners that
\* returns makes it the number given, one that throws leaves it; assigning
\* the global default makes it the new default for a registry without an
\* override and leaves it for a registry with one; no other call changes it.
C16_GetMaxListeners ==
    /\ Ceiling = [set |-> TRUE, inf |-> FALSE, n |-> 10]
    /\ [][ /\ (op'.method = "setMaxListeners" /\ thrown' = "none") =>
                  (Ceiling' = AsCeiling(op'.values[1]))
           /\ (op'.method = "setMaxListeners" /\ thrown' # "none") =>
                  (Ceiling' = Ceiling)
           /\ (op'.method = "defaultMaxListeners") =>
                  (Ceiling' = IF maxListeners.set THEN Ceiling
                              ELSE AsCeiling(op'.values[1]))
           /\ (op'.method \notin {"setMaxListeners", "defaultMaxListeners"}) =>
                  (Ceiling' = Ceiling)
         ]_vars

\* C16 witness: the global default was changed while the registry had an
\* override of 0, and getMaxListeners() is still 0.
C16_Witness ==
    /\ op.method = "defaultMaxListeners"
    /\ maxListeners.set
    /\ Ceiling = [set |-> TRUE, inf |-> FALSE, n |-> 0]
    /\ defaultMaxListeners.n = 1

(***************************************************************************)
(* C17.  removeAllListeners() empties every sequence; removeAllListeners(x)*)
(* empties the sequence of x and no other.                                 *)
(***************************************************************************)
\* C17: after removeAllListeners() every name has listenerCount 0 and emit
\* of it returns false; after removeAllListeners(x) that holds of x and
\* every other name has the sequence it had before the call.
C17_RemoveAllListeners ==
    (op.method = "removeAllListeners") =>
        /\ thrown = "none"
        /\ \A n \in Names :
              IF op.eventName \in {"undefined", n}
              THEN /\ listenerCount(Here, n) = 0
                   /\ emit(Here, n, << >>).ret = "false"
              ELSE events[n] = pre[n]

\* C17 witness: removeAllListeners(x) emptied a sequence of two entries and
\* left the entry stored under another name.
C17_Witness ==
    /\ op.method = "removeAllListeners"
    /\ op.eventName \in Names
    /\ Len(pre[op.eventName]) = 2
    /\ events[op.eventName] = << >>
    /\ \E n \in Names \ {op.eventName} : Len(events[n]) = 1

(***************************************************************************)
(* C18.  on, once, prependListener, prependOnceListener and removeListener *)
(* throw a TypeError for a listener that is no function and do nothing     *)
(* else.                                                                   *)
(***************************************************************************)
\* the last call was one of the five methods, with a listener that is no
\* function
CalledWithoutFunction ==
    /\ op.method \in AddMethods \cup {"removeListener"}
    /\ op.listener = NoListener

\* C18: such a call threw a TypeError, left every sequence as it was,
\* emitted nothing (no newListener, no removeListener notification) and did
\* not warn.
C18_NotAFunction ==
    CalledWithoutFunction =>
        /\ thrown = "TypeError"
        /\ events = pre
        /\ log = << >>
        /\ warned = 0

\* C18 witness: once() without a function threw on a registry that has a
\* newListener handler and entries under the name.
C18_Witness ==
    /\ CalledWithoutFunction
    /\ op.method = "once"
    /\ thrown = "TypeError"
    /\ Len(pre["newListener"]) > 0
    /\ Len(pre[TheName]) > 0

(***************************************************************************)
(* C19.  A fault of a listener during emit leaves emit at once: nothing    *)
(* later is called, what was done before stays.                            *)
(***************************************************************************)
\* the last call was emit, during which the function faulty throws
Faulted == op.method = "emit" /\ faulty # "none"

\* the steps of the log at which the faulting function was called
FaultSteps == {k \in Steps : log[k].type = "call" /\ log[k].fn = Fn(faulty)}

\* C19: if the faulting function was called, emit threw its Error; that
\* call is the last thing emit did (no later call, no later removal); the
\* sequences are those at the time of the fault; and when the fault was in
\* emit's own walk, the entries before the faulting one were called in
\* sequence order.
C19_FaultPropagates ==
    Faulted =>
        \A k \in FaultSteps :
            /\ thrown = "Error"
            /\ ret = "none"
            /\ k = Len(log)
            /\ events = log[k].seen
            /\ (log[k].depth = 1) =>
                  /\ Len(TopCalls) <= Len(Before)
                  /\ \A j \in 1..Len(TopCalls) : TopCalls[j].fn = Before[j]
                  /\ \A j \in 1..(Len(TopCalls) - 1) : TopCalls[j].fn # Fn(faulty)

\* C19 witness: the second of three entries faulted, after the first was
\* called and before the third.
C19_Witness ==
    /\ Faulted
    /\ thrown = "Error"
    /\ Len(Before) = 3
    /\ Len(TopCalls) = 2
    /\ log[Len(log)].depth = 1

(***************************************************************************)
(* C20.  eventNames() lists the names that were given a sequence, in the   *)
(* order in which they were given one.                                     *)
(***************************************************************************)
\* the set of the names eventNames() returns
NamesListed == {eventNames(Here)[k] : k \in 1..Len(eventNames(Here))}

\* C20 (as claimed): every name that ever had an entry added is listed,
\* whether or not its sequence is empty now.
C20_EveryNameEverAdded ==
    \A n \in Keys : (added[n] > 0) => (n \in NamesListed)

\* the integer-like names of a list come before its other names, in
\* ascending numeric order
IntegersFirst(names) ==
    \A i, j \in 1..Len(names) :
        (i < j /\ names[j] \in IntegerNames) =>
            (names[i] \in IntegerNames /\ ArrayIndex(names[i]) < ArrayIndex(names[j]))

\* the name x is in the list
Lists(names, x) == \E k \in 1..Len(names) : names[k] = x

\* what a call named by the record call, with the sequences ev after it,
\* made of the list of names: was before the call, is after it
NamesStep(was, is, call, ev, hasAdded) ==
    /\ (call.method = "removeAllListeners") =>
           (is = IF call.eventName = "undefined" THEN << >>
                 ELSE SelectSeq(was, LAMBDA k : k # call.eventName))
    /\ (call.method # "removeAllListeners") =>
           IF hasAdded /\ ~Lists(was, call.eventName) /\ ~IsSymbol(call.eventName)
           THEN /\ Lists(is, call.eventName)
                /\ SelectSeq(is, LAMBDA k : k # call.eventName) = was
                /\ (call.eventName \notin IntegerNames) =>
                       (is = Append(was, call.eventName))
           ELSE is = was
    /\ IntegersFirst(is)
    /\ \A n \in Keys : Lists(is, n) => ~IsSymbol(n)
    /\ \A n \in Keys : (ev[n] # << >> /\ ~IsSymbol(n)) => Lists(is, n)

\* C20 (amended): eventNames() is empty for a new registry and never lists
\* a symbol.  It lists the integer-like names first, in ascending numeric
\* order, and the other string names after them.  A successful add to a
\* string name not listed brings that name in and leaves the others in
\* their order: an ordinary name goes to the end, an integer-like name to
\* its numeric place among the integer-like ones.  removeAllListeners(x)
\* takes x out and removeAllListeners() takes every name out; every other
\* call, removeListener and emit with their removals included, leaves the
\* list as it is, so a name whose sequence became empty that way stays
\* listed.  Every string name with a non-empty sequence is listed.
C20_NamesUntilRemoveAll ==
    /\ eventNames(Here) = << >>
    /\ [][\A was \in {eventNames(Here)}, is \in {eventNames(Here)'} :
               NamesStep(was, is, op', events', Added')]_vars

\* C20 witness: the names '10', '2' and a symbol were registered in this
\* order, and removeListener emptied the sequence of '2': the list is
\* '2', '10', with the emptied name still in it and the symbol missing.
C20_Witness ==
    /\ op.method = "removeListener"
    /\ TheName = "2"
    /\ Before # << >>
    /\ events["2"] = << >>
    /\ keys = <<"10", "2", "Symbol(s)">>
    /\ events["Symbol(s)"] # << >>
    /\ eventNames(Here) = <<"2", "10">>

(***************************************************************************)
(* C21.  listeners(name) and rawListeners(name) return copies of the       *)
(* stored sequence; listeners unwraps the once entries.                    *)
(***************************************************************************)
\* C21: rawListeners(name) holds the stored entries in order, once entries
\* as wrappers whose listener is the original; listeners(name) holds, in the
\* same order, each plain entry and the original of each once entry; both are
\* empty for a name without registrations.  Neither call changes a sequence,
\* and changing a returned array changes no stored sequence, so that
\* listenerCount, listeners, rawListeners and emit see what they saw before.
C21_ReturnsCopies ==
    /\ (op.method = "rawListeners") =>
          /\ held.items = events[TheName]
          /\ \A k \in 1..Len(held.items) :
                IsListener(held.items[k]) =>
                    ListenerOf(held.items[k]) = Original(events[TheName][k])
          /\ events = pre
    /\ (op.method = "listeners") =>
          /\ Len(held.items) = Len(events[TheName])
          /\ \A k \in 1..Len(held.items) :
                held.items[k] = Original(events[TheName][k])
          /\ events = pre
    /\ (op.method \in {"truncate", "push"}) =>
          /\ events = pre
          /\ \A n \in Names :
                /\ listenerCount(Here, n) = Len(pre[n])
                /\ rawListeners(Here, n).held.items = pre[n]
                /\ emit(Here, n, << >>).log =
                       emit([Here EXCEPT !.events = pre], n, << >>).log

\* C21 witness: a caller emptied the array it got for a name that has a
\* plain and a once entry, and the two are still stored.
C21_Witness ==
    /\ op.method = "truncate"
    /\ held.items = << >>
    /\ Len(events[TheName]) = 2
    /\ \E k \in 1..2 : IsListener(events[TheName][k])
    /\ \E k \in 1..2 : ~IsListener(events[TheName][k])

(***************************************************************************)
(* C22.  removeAllListeners notifies nobody of the entries it clears.      *)
(***************************************************************************)
\* C22: removeAllListeners, with or without a name, emitted nothing and
\* called no function, whatever is registered under removeListener.
C22_ClearsSilently ==
    (op.method = "removeAllListeners") => (log = << >>)

\* C22 witness: removeAllListeners cleared a sequence with entries while
\* a plain removeListener handler was registered.
C22_Witness ==
    /\ op.method = "removeAllListeners"
    /\ \E k \in 1..Len(pre["removeListener"]) : ~IsListener(pre["removeListener"][k])
    /\ Len(pre["t"]) = 2
    /\ events["t"] = << >>

(***************************************************************************)
(* C23.  removeAllListeners(name) is a TypeError for a name that is        *)
(* neither a string nor a symbol.                                          *)
(***************************************************************************)
\* the last call was removeAllListeners with such a name
ClearedByOther ==
    /\ op.method = "removeAllListeners"
    /\ Len(op.values) = 1
    /\ op.values[1].kind \notin {"str", "symbol"}

\* C23 (as claimed): such a call threw a TypeError and changed no sequence.
C23_RejectsOtherNames ==
    ClearedByOther => (thrown = "TypeError" /\ events = pre)

(***************************************************************************)
(* C24.  The promise of once(emitter, name) settles once, by whichever of  *)
(* name and 'error' is emitted first.                                      *)
(***************************************************************************)
\* the entries of a sequence
EntriesOf(s) == {s[k] : k \in 1..Len(s)}

\* the last call was emit of the helper's name while the helper's once
\* entry was registered
EmittedHelperName ==
    /\ op.method = "emit"
    /\ promise.state # "none"
    /\ TheName = promise.name
    /\ Listener(Resolver) \in EntriesOf(Before)

\* the last call was emit('error', e) while the helper's reject was
\* registered
EmittedHelperError ==
    /\ op.method = "emit"
    /\ promise.state # "none"
    /\ TheName = ErrorName
    /\ Reject \in EntriesOf(Before)

\* C24 (as claimed): after emit of the helper's name the promise is settled,
\* with the emitted arguments if it resolved; after emit('error', e) it is
\* settled, with e if it rejected.
C24_FirstEventSettles ==
    /\ EmittedHelperName =>
          /\ promise.state \in {"resolved", "rejected"}
          /\ (promise.state = "resolved") => (promise.with = op.values)
    /\ EmittedHelperError =>
          /\ promise.state \in {"resolved", "rejected"}
          /\ (promise.state = "rejected") =>
                (promise.with \in {SubSeq(op.values, 1, 1), <<Err("TypeError")>>})

(***************************************************************************)
(* C25.  The promise helper takes the losing listener off, whichever event *)
(* comes first.                                                            *)
(***************************************************************************)
\* C25 (as claimed): after the name was emitted the helper's reject is not
\* registered under 'error'; after 'error' was emitted neither the helper's
\* once entry nor its reject is registered.
C25_LoserDeregistered ==
    /\ EmittedHelperName => (Reject \notin EntriesOf(events[ErrorName]))
    /\ EmittedHelperError =>
          /\ Listener(Resolver) \notin EntriesOf(events[promise.name])
          /\ Reject \notin EntriesOf(events[ErrorName])

(***************************************************************************)
(* C26.  A listener that removes a registration at or before the walk's    *)
(* position during emit makes the walk skip nobody.                        *)
(***************************************************************************)
\* the last call was emit, during which the function of the script called
\* the registry in the way does
Reentered(does) == op.method = "emit" /\ script.does = does

\* the user function of the script
Scripted == Fn(script.fn)

\* the functions the last call's own emit called, in order
TopFns == [k \in 1..Len(TopCalls) |-> TopCalls[k].fn]

\* C26 (as claimed): when a plain listener takes itself off with
\* removeListener(name, itself) the first time it is called, an emit(name)
\* that returns has called every entry of the sequence it began with, once
\* and in order.
C26_RemovalSkipsNobody ==
    (Reentered("removeListener") /\ thrown = "none") => (TopFns = Before)

(***************************************************************************)
(* C27.  A listener that registers itself again during emit is called      *)
(* once by that emit, which returns.                                       *)
(***************************************************************************)
\* the number of entries of s that satisfy P
Count(s, P(_)) == Cardinality({k \in 1..Len(s) : P(s[k])})

\* C27 (as claimed): if the only registration of f under the name is a once
\* entry and f calls once(name, f), or it is a plain entry and f calls
\* on(name, g), then emit(name) returns and its walk has called f exactly
\* once.
C27_ReRegisteringRunsOnce ==
    LET IsMine(e) == Original(e) = Scripted
        IsCall(x) == x = Scripted
    IN /\ (Reentered("once") /\ Count(Before, IsMine) = 1
                             /\ Listener(Scripted) \in EntriesOf(Before)) =>
              (thrown = "none" /\ Count(TopFns, IsCall) = 1)
       /\ (Reentered("on") /\ Count(Before, IsMine) = 1
                           /\ Scripted \in EntriesOf(Before)) =>
              (thrown = "none" /\ Count(TopFns, IsCall) = 1)

(***************************************************************************)
(* C28.  A once registration is dispatched at most once.                   *)
(***************************************************************************)
\* the once entries emit or removeListener took out of the sequence of n in
\* the last call, at any depth
OnceSplices(n) ==
    Cardinality({k \in Steps : /\ log[k].type = "splice"
                               /\ log[k].name = n
                               /\ IsListener(log[k].fn)})

\* the once entries the last call stored under n
OnceAdds(n) ==
    IF /\ thrown = "none"
       /\ op.method \in {"once", "prependOnceListener"}
       /\ n = TheName
    THEN 1 ELSE 0

\* C28: in every call in which no listener registers an entry itself,
\* each once entry emit came to was taken out of its sequence, and is not
\* there for a nested or a later emit: the once entries left under a name are
\* those before the call and the one the call stored, less those taken out.
\* The walk of an emit called a function no more often than the sequence
\* had plain entries of it and once entries of it were taken out, even when
\* a listener called emit(name) again from inside the walk.
C28_OnceAtMostOnce ==
    (script.does \notin {"once", "on"}) =>
        /\ \A n \in Keys :
              Count(events[n], IsListener) + OnceSplices(n) =
                  Count(pre[n], IsListener) + OnceAdds(n)
        /\ (op.method = "emit") =>
              \A f \in Fns :
                  LET IsPlain(e) == e = Fn(f)
                      IsOnceOf(x) == /\ x.type = "splice"
                                     /\ x.depth = 1
                                     /\ x.fn = Listener(Fn(f))
                  IN Count(TopFns, IsPlain) <=
                         Count(Before, IsPlain) + Count(log, IsOnceOf)

\* C28 witness: a listener called emit(name) again from inside the walk;
\* the inner emit came to the once entry behind it and took it out, and no
\* once entry is left for the outer walk or a later emit.
C28_Witness ==
    /\ Reentered("emit")
    /\ Len(Before) = 2
    /\ Before[1] = Scripted
    /\ IsListener(Before[2])
    /\ OnceSplices(TheName) = 1
    /\ Count(events[TheName], IsListener) = 0

(***************************************************************************)
(* C29.  With listeners that do not call the registry, every emit, add and *)
(* remove call ends, and each removal inside it shortens a sequence.       *)
(***************************************************************************)
\* the entries stored in a registry, as one sequence
Total(ev) ==
    ev["t"] \o ev["newListener"] \o ev["removeListener"] \o ev[ErrorName]
        \o ev["2"] \o ev["10"] \o ev["Symbol(s)"]

\* the sequences as they were before step k of the last call
SeenBefore(k) == IF k = 1 THEN pre ELSE log[k - 1].seen

\* the removals among the first k steps of the last call
SplicesUpTo(k) == Cardinality({j \in 1..k : log[j].type = "splice"})

\* the last call was emit, an add or removeListener, and its listeners
\* left the registry alone
SingleCall ==
    /\ op.method \in AddMethods \cup {"emit", "removeListener"}
    /\ script = NoScript
    /\ faulty = "none"

\* C29: such a call ended, by returning or by throwing.  Each removal it
\* made took exactly one entry out, and no other step of it changed a
\* sequence before the entry of an add was stored; an emit nested inside it
\* follows a removal, so that the call emitted at most once more than it
\* removed, never went deeper than that, and removed no more entries than
\* were stored.
C29_Terminates ==
    SingleCall =>
        /\ (ret # "none") # (thrown # "none")
        /\ \A k \in Steps :
              /\ Len(Total(log[k].seen)) =
                     Len(Total(SeenBefore(k))) -
                         (IF log[k].type = "splice" THEN 1 ELSE 0)
              /\ log[k].depth <= 1 + SplicesUpTo(k)
        /\ SplicesUpTo(Len(log)) <= Len(Total(pre))
        /\ Cardinality({k \in Steps : log[k].type = "emit"}) <=
               1 + SplicesUpTo(Len(log))

\* C29 witness: emit of a name with a once entry, with a once handler
\* registered under removeListener: the removal of the entry emitted
\* removeListener, which removed the handler and emitted removeListener
\* again, three emits deep.
C29_Witness ==
    /\ SingleCall
    /\ op.method = "emit"
    /\ TheName = "t"
    /\ \E k \in Steps : log[k].depth = 3
    /\ \E k \in Steps : /\ log[k].type = "splice"
                        /\ log[k].name = "removeListener"
                        /\ log[k].depth = 2
    /\ events["removeListener"] = << >>

(***************************************************************************)
(* C30.  A call for one name leaves the sequences of the other names as    *)
(* they are, but for the once handlers its notifications consume.          *)
(***************************************************************************)
\* the plain entries of a sequence, in order
PlainOf(s) == SelectSeq(s, LAMBDA e : ~IsListener(e))

\* the functions called in the last call by an emit of the name n
CalledUnder(n) == {k \in Steps : log[k].type = "call" /\ log[k].name = n}

\* C30: after an add, a removeListener or an emit for a name, every other
\* name that no notification of the call was emitted under has the sequence
\* it had, and none of its entries was called; a name a notification was
\* emitted under has its plain entries as they were, in order, and lost at
\* most once entries.  Only newListener and removeListener are such names,
\* newListener only for an add.
C30_OtherNamesUntouched ==
    SingleCall =>
        \A B \in Keys \ {TheName} :
            LET notified == \E k \in Steps : log[k].type = "emit" /\ log[k].name = B
            IN /\ notified => (B \in {"newListener", "removeListener"})
               /\ (notified /\ B = "newListener") => (op.method \in AddMethods)
               /\ ~notified => (events[B] = pre[B] /\ CalledUnder(B) = {})
               /\ PlainOf(events[B]) = PlainOf(pre[B])
               /\ Len(events[B]) <= Len(pre[B])

\* C30 witness: a call for the name removeListener took an entry out of
\* that sequence, and the two entries under t stayed.
C30_Witness ==
    /\ SingleCall
    /\ op.method \in {"emit", "removeListener"}
    /\ TheName = "removeListener"
    /\ Len(events["removeListener"]) < Len(pre["removeListener"])
    /\ Len(pre["t"]) = 2
    /\ events["t"] = pre["t"]

\* C31: after every completed call of a public method, removeListener, an
\* emit that fires once entries, removeAllListeners(name) and
\* removeAllListeners() included, this.eventsCount, the number _on compares
\* with the ceiling, is the number of entries stored in the registry over
\* all names, and it is never negative.
C31_CountIsStored ==
    /\ eventsCount = Len(Total(events))
    /\ eventsCount >= 0

====
